---- MODULE Spec2Model ----
(***************************************************************************)
(* Model of the stdio <-> HTTP bridge of mcp_http_to_stdio/bridge.py:      *)
(* MCPClientWrapper.run (the read/dispatch/write loop) and                 *)
(* MCPClientWrapper.handle_request (the forwarder), together with the      *)
(* retry policy that MCPClientWrapper.__init__ mounts on the session.      *)
(*                                                                         *)
(* JSON values are records [type, n, s, fields]; a JSON object keeps its   *)
(* members in `fields`, a set of <<key, value>> pairs.  Texts (an input    *)
(* line, an HTTP body, an output line) are records [raw, pad, value]:      *)
(* raw says whether the characters are empty, not JSON, or the JSON        *)
(* spelling of `value`; pad says whether whitespace surrounds them.        *)
(***************************************************************************)
EXTENDS Integers, Sequences, FiniteSets

VARIABLES
    stdin,        \* the lines read from standard input so far
    stdout,       \* the lines written to standard output: [src, line]
    pc,           \* position of the process in run() / handle_request()
    status,       \* "running", "exit0" or "exit1"
    interrupted,  \* a KeyboardInterrupt was delivered
    request,      \* the decoded message being handled
    retries,      \* Retry.total left for the session.post in progress
    posts,        \* bodies of the POST attempts made for the current message
    http,         \* outcome of the last POST attempt for the current message
    response,     \* what handle_request returned to run()
    session,      \* what __init__ set up: url, share_key, timeout, retry policy,
                  \* and the cookie jar of the requests.Session
    elapsed       \* seconds since session.post was called for the current message

vars == <<stdin, stdout, pc, status, interrupted, request, retries, posts, http, response,
          session, elapsed>>

\* ---------------------------------------------------------------- bounds
MaxLines == 2

\* the configured timeout, in seconds (any positive number; 300 by default)
Timeout == 2

\* ------------------------------------------------------------ JSON values
None == [type |-> "null", n |-> 0, s |-> "", fields |-> {}]
JNum(k) == [type |-> "number", n |-> k, s |-> "", fields |-> {}]
JStr(t) == [type |-> "string", n |-> 0, s |-> t, fields |-> {}]
JArr == [type |-> "array", n |-> 0, s |-> "", fields |-> {}]
JObj(fs) == [type |-> "object", n |-> 0, s |-> "", fields |-> fs]

\* `key in d` for a dict d
has_key(d, key) == \E p \in d.fields : p[1] = key

\* d.get(key, default) for a dict d
dict_get(d, key, default) ==
    IF has_key(d, key) THEN (CHOOSE p \in d.fields : p[1] = key)[2] ELSE default

\* ------------------------------------------------------------------ texts
Text(raw, pad, value) == [raw |-> raw, pad |-> pad, value |-> value]
EmptyText == Text("empty", FALSE, None)

\* str.strip(): drops the surrounding whitespace
strip(t) == [t EXCEPT !.pad = FALSE]

\* json.loads / Response.json(): leading and trailing whitespace is accepted,
\* an empty text or a text that is not JSON raises a decode error
json_loads(t) ==
    IF t.raw = "json" THEN [ok |-> TRUE, value |-> t.value]
    ELSE [ok |-> FALSE, value |-> None]

\* json.dumps: the one-line spelling of a value, no surrounding whitespace
json_dumps(v) == Text("json", FALSE, v)

\* ------------------------------------------------- retry policy (__init__)
total == 3
backoff_factor == 1
status_forcelist == {429, 500, 502, 503, 504}

\* defaults of urllib3's Retry that __init__ leaves alone: a response with a
\* Retry-After header and one of these statuses is retried as well
respect_retry_after_header == TRUE
RETRY_AFTER_STATUS_CODES == {413, 429, 503}

\* the policy object handed to HTTPAdapter(max_retries=...)
retry_strategy ==
    [total |-> total, backoff_factor |-> backoff_factor, status_forcelist |-> status_forcelist,
     allowed_methods |-> {"POST"}]

\* the sleep before the n-th retry: 1s, 2s, 4s
backoff(n) == backoff_factor * 2 ^ (n - 1)

\* variant: the budget is found exhausted one failure too late
is_exhausted_late(t) == t < -1

\* Retry.is_exhausted after Retry.increment has decremented total
is_exhausted(t) == t < 0

\* an attempt that urllib3 hands to Retry.increment, t being the Retry.total
\* left: a connection or timeout fault, a response whose status is in
\* status_forcelist, or (while t is not 0) a response with a Retry-After
\* header and a status in RETRY_AFTER_STATUS_CODES
is_retry(o, t) ==
    \/ o.kind = "fault"
    \/ o.kind = "response" /\ o.status \in status_forcelist
    \/ /\ o.kind = "response" /\ t # 0 /\ respect_retry_after_header
       /\ o.retry_after /\ o.status \in RETRY_AFTER_STATUS_CODES

\* ------------------------------------------------------- handle_request
is_notification(req) == ~has_key(req, "id")

Envelope(code, message, id) ==
    JObj({ <<"jsonrpc", JStr("2.0")>>,
           <<"error", JObj({ <<"code", JNum(code)>>, <<"message", JStr(message)>> })>>,
           <<"id", id>> })

\* variant: the handler answers a notification too
request_failed_for_all(req) ==
    Envelope(-32603, "Share Server request failed", dict_get(req, "id", None))

\* variant: the handler reports another error code
request_failed_wrong_code(req) ==
    IF is_notification(req) THEN None
    ELSE Envelope(-32000, "Share Server request failed", dict_get(req, "id", None))

\* except requests.exceptions.RequestException
request_failed(req) ==
    IF is_notification(req) THEN None
    ELSE Envelope(-32603, "Share Server request failed", dict_get(req, "id", None))

\* variant: the handler forgets the request's id
unexpected_error_null_id(req) ==
    IF is_notification(req) THEN None
    ELSE Envelope(-32603, "Internal error", None)

\* except Exception
unexpected_error(req) ==
    IF is_notification(req) THEN None
    ELSE Envelope(-32603, "Internal error", dict_get(req, "id", None))

\* the tools/call logging block: params.get raises unless params is a dict
tool_name_raises(req) ==
    /\ dict_get(req, "method", None) = JStr("tools/call")
    /\ dict_get(req, "params", JObj({})).type # "object"

\* Response.raise_for_status
raise_for_status(o) == o.status >= 400 /\ o.status < 600

\* variant: no special case for 204
after_post_no_204(req, o) ==
    IF raise_for_status(o) THEN {request_failed(req)}
    ELSE IF ~json_loads(o.body).ok THEN {request_failed(req), unexpected_error(req)}
    ELSE IF is_notification(req) THEN {None}
    ELSE {json_loads(o.body).value}

\* variant: the decode failure of the body escapes handle_request and is
\* answered by run()'s JSONDecodeError handler
after_post_decode_escapes(req, o) ==
    IF raise_for_status(o) THEN {request_failed(req)}
    ELSE IF o.status = 204 THEN {None}
    ELSE IF ~json_loads(o.body).ok THEN {Envelope(-32700, "Parse error", None)}
    ELSE IF is_notification(req) THEN {None}
    ELSE {json_loads(o.body).value}

\* what handle_request returns once session.post has returned response o;
\* a set, because an undecodable body raises requests' JSONDecodeError
\* (a RequestException) or a plain ValueError, depending on the library
after_post(req, o) ==
    IF raise_for_status(o) THEN {request_failed(req)}
    ELSE IF o.status = 204 THEN {None}
    ELSE IF ~json_loads(o.body).ok THEN {request_failed(req), unexpected_error(req)}
    ELSE IF is_notification(req) THEN {None}
    ELSE {json_loads(o.body).value}

\* ------------------------------------------------------------------- run
\* run() returns (end of input, or `except KeyboardInterrupt`): exit status 0
graceful_exit == "exit0"

\* variant: the fatal handler forgets to exit with a failure status
fatal_exit_zero == "exit0"

\* `except Exception` of run(): log and sys.exit(1)
fatal_exit == "exit1"

\* variant: the parse error is reported as an invalid request
parse_error_wrong_code == Envelope(-32600, "Parse error", None)

parse_error == Envelope(-32700, "Parse error", None)

\* sys.stdout.write(json.dumps(value) + '\n'); src is the number of the input
\* line being answered
write(out, src, value) == Append(out, [src |-> src, line |-> json_dumps(value)])

\* if response is not None: write it
write_response(out, src, value) == IF value # None THEN write(out, src, value) ELSE out

\* --------------------------------------------------------------- inputs
Msg(method, more) == JObj({ <<"method", JStr(method)>> } \cup more)

ReqList1     == Msg("tools/list", { <<"id", JNum(1)>> })
ReqPing2     == Msg("ping", { <<"id", JNum(2)>> })
ReqNullId    == Msg("ping", { <<"id", None>> })
Notification == Msg("notifications/initialized", {})
ReqCall1     == Msg("tools/call", { <<"id", JNum(1)>>,
                                    <<"params", JObj({ <<"name", JStr("search")>> })>> })
ReqCallBad2  == Msg("tools/call", { <<"id", JNum(2)>>, <<"params", JStr("search")>> })
NoteCallBad  == Msg("tools/call", { <<"params", JArr>> })

Objects == {ReqList1, ReqPing2, ReqNullId, Notification, ReqCall1, ReqCallBad2, NoteCallBad}
NonObjects == {JArr, JStr("hello"), JNum(42), None}

\* the lines standard input can deliver
Lines ==
    { Text("empty", FALSE, None), Text("empty", TRUE, None), Text("garbage", FALSE, None) }
    \cup { Text("json", FALSE, v) : v \in Objects \cup NonObjects }
    \cup { Text("json", TRUE, ReqPing2) }

Result(id) == JObj({ <<"jsonrpc", JStr("2.0")>>, <<"result", JObj({})>>, <<"id", id>> })

\* the bodies the upstream can send with a success status
Bodies ==
    { Text("json", FALSE, Result(JNum(1))), Text("json", TRUE, Result(JNum(2))),
      Text("json", FALSE, None), Text("garbage", FALSE, None) }

NoHttp == [kind |-> "none", status |-> 0, body |-> EmptyText,
           retry_after |-> FALSE, set_cookie |-> FALSE]
Fault == [kind |-> "fault", status |-> 0, body |-> EmptyText,
          retry_after |-> FALSE, set_cookie |-> FALSE]
Reply(st, body) == [kind |-> "response", status |-> st, body |-> body,
                    retry_after |-> FALSE, set_cookie |-> FALSE]

\* a response that carries a Retry-After header
ReplyRetryAfter(st) == [Reply(st, EmptyText) EXCEPT !.retry_after = TRUE]

\* a response that carries a Set-Cookie header
ReplySetCookie(st, body) == [Reply(st, body) EXCEPT !.set_cookie = TRUE]

\* the ways one POST attempt can end
Outcomes ==
    { Fault, Reply(204, EmptyText), Reply(404, EmptyText), Reply(503, EmptyText),
      ReplyRetryAfter(413), ReplySetCookie(200, Text("json", FALSE, Result(JNum(1)))) }
    \cup { Reply(200, b) : b \in Bodies }

\* how long one attempt can take, t being the timeout passed to session.post:
\* a fault is a refused connection (no time at all) or a timeout (t seconds);
\* a response is taken to arrive at once
Durations(o, t) == IF o.kind = "fault" THEN {0, t} ELSE {0}

\* the requests.Session as __init__ leaves it
new_session ==
    [url |-> "http://localhost:8080/mcp", share_key |-> "secret", timeout |-> Timeout,
     max_retries |-> retry_strategy, cookies |-> FALSE]

\* variant: the adapter goes on with the budget the previous call left
fresh_retries_carried(policy, left) == left

\* HTTPAdapter.send starts every call from the mounted policy
fresh_retries(policy, left) == policy.total

\* Session.send stores the cookies of the response it returns
extract_cookies(sess, o) ==
    IF o.set_cookie THEN [sess EXCEPT !.cookies = TRUE] ELSE sess

\* ------------------------------------------------------------------ Init
Init ==
    /\ stdin = <<>>
    /\ stdout = <<>>
    /\ pc = "read"
    /\ status = "running"
    /\ interrupted = FALSE
    /\ request = None
    /\ retries = total
    /\ posts = <<>>
    /\ http = NoHttp
    /\ response = None
    /\ session = new_session
    /\ elapsed = 0

\* --------------------------------------------------------------- actions
\* variant: the next line is read as soon as handle_request has returned,
\* before the response is written
ReadLine_early(l) ==
    /\ status = "running" /\ pc \in {"read", "write"}
    /\ Len(stdin) < MaxLines
    /\ stdin' = Append(stdin, l)
    /\ posts' = <<>> /\ http' = NoHttp /\ response' = None
    /\ retries' = fresh_retries(session.max_retries, retries)
    /\ LET line == strip(l)
           decoded == json_loads(line)
       IN  IF line.raw = "empty"
           THEN /\ pc' = "read" /\ request' = None /\ stdout' = stdout
           ELSE IF ~decoded.ok
           THEN /\ pc' = "read" /\ request' = None
                /\ stdout' = write(stdout, Len(stdin) + 1, parse_error)
           ELSE /\ pc' = "handle" /\ request' = decoded.value /\ stdout' = stdout
    /\ UNCHANGED <<status, interrupted, session, elapsed>>

\* variant: the decode error of a malformed line is not caught inside the loop
\* and ends the process through the fatal handler
ReadLine_fatal(l) ==
    /\ status = "running" /\ pc = "read"
    /\ Len(stdin) < MaxLines
    /\ stdin' = Append(stdin, l)
    /\ posts' = <<>> /\ http' = NoHttp /\ response' = None
    /\ retries' = fresh_retries(session.max_retries, retries)
    /\ LET line == strip(l)
           decoded == json_loads(line)
       IN  IF line.raw = "empty"
           THEN /\ pc' = "read" /\ request' = None /\ stdout' = stdout /\ status' = status
           ELSE IF ~decoded.ok
           THEN /\ pc' = "read" /\ request' = None /\ stdout' = stdout /\ status' = fatal_exit
           ELSE /\ pc' = "handle" /\ request' = decoded.value /\ stdout' = stdout
                /\ status' = status
    /\ UNCHANGED <<interrupted, session, elapsed>>

\* run(): one turn of `for line in sys.stdin` up to the call of handle_request:
\* strip, skip an empty line, json.loads, and the JSONDecodeError handler
ReadLine(l) ==
    /\ status = "running" /\ pc = "read"
    /\ Len(stdin) < MaxLines
    /\ stdin' = Append(stdin, l)
    /\ posts' = <<>> /\ http' = NoHttp /\ response' = None
    /\ retries' = fresh_retries(session.max_retries, retries)
    /\ LET line == strip(l)
           decoded == json_loads(line)
       IN  IF line.raw = "empty"
           THEN /\ pc' = "read" /\ request' = None /\ stdout' = stdout
           ELSE IF ~decoded.ok
           THEN /\ pc' = "read" /\ request' = None
                /\ stdout' = write(stdout, Len(stdin) + 1, parse_error)
           ELSE /\ pc' = "handle" /\ request' = decoded.value /\ stdout' = stdout
    /\ UNCHANGED <<status, interrupted, session, elapsed>>

\* run(): sys.stdin is exhausted, the for loop ends and run() returns
EndOfStream ==
    /\ status = "running" /\ pc = "read"
    /\ status' = graceful_exit
    /\ UNCHANGED <<stdin, stdout, pc, interrupted, request, retries, posts, http, response,
                   session, elapsed>>

\* handle_request up to session.post: request.get('method') outside the try
\* (an AttributeError there escapes to run()'s `except Exception`, which
\* calls sys.exit(1)), then the tools/call logging block inside the try
HandleRequest ==
    /\ status = "running" /\ pc = "handle"
    /\ IF request.type # "object"
       THEN /\ status' = fatal_exit
            /\ UNCHANGED <<pc, response>>
       ELSE IF tool_name_raises(request)
       THEN /\ response' = unexpected_error(request)
            /\ pc' = "write"
            /\ status' = status
       ELSE /\ pc' = "post"
            /\ UNCHANGED <<status, response>>
    /\ UNCHANGED <<stdin, stdout, interrupted, request, retries, posts, http, session, elapsed>>

\* one POST attempt of session.post ending with outcome o after d seconds: the
\* adapter sleeps and retries it, raises once the retries are exhausted, or
\* returns the response, and handle_request then runs to its return
PostAttempt(o, d) ==
    /\ status = "running" /\ pc = "post"
    /\ posts' = Append(posts, json_dumps(request))
    /\ http' = o
    /\ IF is_retry(o, retries)
       THEN /\ retries' = retries - 1
            /\ session' = session
            /\ IF is_exhausted(retries - 1)
               THEN /\ response' = request_failed(request)
                    /\ pc' = "write"
                    /\ elapsed' = elapsed + d
               ELSE /\ elapsed' = elapsed + d + backoff(Len(posts) + 1)
                    /\ UNCHANGED <<response, pc>>
       ELSE /\ response' \in after_post(request, o)
            /\ pc' = "write"
            /\ retries' = retries
            /\ session' = extract_cookies(session, o)
            /\ elapsed' = elapsed + d
    /\ UNCHANGED <<stdin, stdout, status, interrupted, request>>

\* run(): write the response unless it is None, flush, next line
WriteResponse ==
    /\ status = "running" /\ pc = "write"
    /\ stdout' = write_response(stdout, Len(stdin), response)
    /\ pc' = "read"
    /\ elapsed' = 0
    /\ UNCHANGED <<stdin, status, interrupted, request, retries, posts, http, response, session>>

\* a KeyboardInterrupt is raised wherever the process is; neither
\* `except Exception` of handle_request catches it, run() logs and returns
Interrupt ==
    /\ status = "running"
    /\ status' = graceful_exit
    /\ interrupted' = TRUE
    /\ UNCHANGED <<stdin, stdout, pc, request, retries, posts, http, response, session, elapsed>>

Next ==
    \/ \E l \in Lines : ReadLine(l)
    \/ EndOfStream
    \/ HandleRequest
    \/ \E o \in Outcomes : \E d \in Durations(o, session.timeout) : PostAttempt(o, d)
    \/ WriteResponse
    \/ Interrupt

Spec == Init /\ [][Next]_vars

\* the line decodes to a JSON value
Decodes(l) == strip(l).raw # "empty" /\ json_loads(strip(l)).ok

Decoded(l) == json_loads(strip(l)).value

\* the input lines that are blank, malformed or JSON objects
ObjectLines == {l \in Lines : Decodes(l) => Decoded(l).type = "object"}

\* the program fed with such lines only
ObjectNext ==
    \/ \E l \in ObjectLines : ReadLine(l)
    \/ EndOfStream
    \/ HandleRequest
    \/ \E o \in Outcomes : \E d \in Durations(o, session.timeout) : PostAttempt(o, d)
    \/ WriteResponse
    \/ Interrupt

\* the process is never suspended for ever: a blocking read of a finite
\* stream returns a line or the end of the stream, every POST attempt ends,
\* and the steps in between are plain sequential code
Fairness ==
    /\ WF_vars(EndOfStream \/ \E l \in ObjectLines : ReadLine(l))
    /\ WF_vars(HandleRequest)
    /\ WF_vars(\E o \in Outcomes : \E d \in Durations(o, session.timeout) : PostAttempt(o, d))
    /\ WF_vars(WriteResponse)

LiveSpec == Init /\ [][ObjectNext]_vars /\ Fairness

TypeOK ==
    /\ Len(stdin) <= MaxLines
    /\ pc \in {"read", "handle", "post", "write"}
    /\ status \in {"running", "exit0", "exit1"}
    /\ retries \in (-1)..total
    /\ Len(posts) <= total + 1
    /\ elapsed \in 0..((total + 1) * Timeout + backoff(1) + backoff(2) + backoff(3))
    /\ session.cookies \in BOOLEAN

\* ------------------------------------------------- vocabulary of the claims
\* the number of the input line being processed (0 before the first read)
cur == Len(stdin)

\* the line decodes to a JSON object carrying an `id` key
IsRequestLine(l) == Decodes(l) /\ Decoded(l).type = "object" /\ has_key(Decoded(l), "id")

\* the line decodes to a JSON object without an `id` key
IsNotificationLine(l) == Decodes(l) /\ Decoded(l).type = "object" /\ ~has_key(Decoded(l), "id")

\* the line is not empty once stripped and is not JSON
IsMalformedLine(l) == strip(l).raw # "empty" /\ ~json_loads(strip(l)).ok

\* the output lines written for input line i
Answers(i) == {k \in 1..Len(stdout) : stdout[k].src = i}
LinesFor(i) == Cardinality(Answers(i))

\* run() is done with input line i
Finished(i) == i < cur \/ (i = cur /\ pc = "read")

\* handle_request has returned for the current line, a JSON object
Returned == cur >= 1 /\ Decodes(stdin[cur]) /\ Decoded(stdin[cur]).type = "object"
            /\ pc \in {"write", "read"}

\* v is an error envelope with the given code and id
IsErrorEnvelope(v, code, id) ==
    /\ v.type = "object"
    /\ has_key(v, "error")
    /\ dict_get(dict_get(v, "error", None), "code", None) = JNum(code)
    /\ has_key(v, "id")
    /\ dict_get(v, "id", JArr) = id

Transient(o) == o.kind = "fault" \/ (o.kind = "response" /\ o.status \in {429, 500, 502, 503, 504})

\* the last attempt returned a success status, not 204, with a JSON body
PassedThrough(o) ==
    /\ o.kind = "response" /\ o.status >= 200 /\ o.status < 300 /\ o.status # 204
    /\ o.body.raw = "json"

\* the forwarding of the current message ended in failure
CallFailed ==
    \/ Len(posts) = 0
    \/ http.kind = "fault"
    \/ http.kind = "response" /\ http.status >= 400
    \/ http.kind = "response" /\ http.status # 204 /\ http.status < 400 /\ http.body.raw # "json"

\* ------------------------------------------------------------------ claims
\* C1: a line that decodes to a JSON object without an `id` key (a
\* notification) gets no output line, whatever the upstream outcome was.
C1_NotificationSilent ==
    \A i \in 1..Len(stdin) : IsNotificationLine(stdin[i]) => LinesFor(i) = 0

\* a notification whose POST failed four times with a connection fault has
\* been dropped and the loop is back at the read
C1_Witness ==
    /\ cur >= 1 /\ IsNotificationLine(stdin[cur]) /\ pc = "read"
    /\ http.kind = "fault" /\ Len(posts) = 4 /\ LinesFor(cur) = 0

\* C2: every line that decodes to a request (a JSON object with an `id` key,
\* `id: null` included) has exactly one output line once run() is done with
\* it, for every upstream outcome.
C2_ExactlyOneLine ==
    \A i \in 1..Len(stdin) :
        (IsRequestLine(stdin[i]) /\ Finished(i)) => LinesFor(i) = 1

\* C3 (as stated): every line written in answer to a decodable request carries
\* an `id` equal to the request's `id`, synthesized envelope or upstream body.
C3_IdAlwaysEchoed ==
    \A k \in 1..Len(stdout) :
        IsRequestLine(stdin[stdout[k].src]) =>
            /\ has_key(stdout[k].line.value, "id")
            /\ dict_get(stdout[k].line.value, "id", JArr)
                 = dict_get(Decoded(stdin[stdout[k].src]), "id", JArr)

\* C3 (amended): a line written for a decodable request is either the decoded
\* upstream body, written as the upstream sent it and with whatever `id` it
\* has, or an envelope made by the bridge, whose `id` is the request's `id`.
C3_SynthesizedIdEchoed ==
    \A k \in Answers(cur) :
        IsRequestLine(stdin[cur]) =>
            IF PassedThrough(http)
            THEN stdout[k].line.value = http.body.value
            ELSE /\ has_key(stdout[k].line.value, "id")
                 /\ dict_get(stdout[k].line.value, "id", JArr)
                      = dict_get(Decoded(stdin[cur]), "id", JArr)

\* a request with id 2 whose tools/call logging failed has its envelope
\* written, and a request answered by an upstream body with another id too
C3_Witness ==
    /\ cur = 2 /\ pc = "read"
    /\ Decoded(stdin[1]) = ReqCallBad2 /\ LinesFor(1) = 1
    /\ Decoded(stdin[2]) = ReqList1 /\ LinesFor(2) = 1
    /\ PassedThrough(http) /\ http.body.value = Result(JNum(2))

\* C4: a non-empty line that is not JSON gets exactly one line, an error
\* envelope with code -32700 and id null, no POST is made for it, and the loop
\* is back at the read, still alive.
C4_ParseError ==
    \A i \in 1..Len(stdin) :
        IsMalformedLine(stdin[i]) =>
            /\ LinesFor(i) = 1
            /\ \A k \in Answers(i) : IsErrorEnvelope(stdout[k].line.value, -32700, None)
            /\ i = cur => (posts = <<>> /\ pc = "read" /\ status # "exit1")

\* a malformed line was answered and the request read after it was answered
C4_Witness ==
    /\ cur = 2 /\ pc = "read"
    /\ IsMalformedLine(stdin[1]) /\ LinesFor(1) = 1
    /\ IsRequestLine(stdin[2]) /\ LinesFor(2) = 1 /\ Len(posts) >= 1

\* C5: once an input of decodable requests and notifications is processed,
\* there are as many output lines as requests and the k-th output line
\* answers the k-th request.
C5_OrderPreserved ==
    (pc = "read" /\ \A i \in 1..Len(stdin) :
                        IsRequestLine(stdin[i]) \/ IsNotificationLine(stdin[i]))
    => /\ Len(stdout) = Cardinality({i \in 1..Len(stdin) : IsRequestLine(stdin[i])})
       /\ \A k \in 1..Len(stdout) :
            /\ IsRequestLine(stdin[stdout[k].src])
            /\ Cardinality({j \in 1..stdout[k].src : IsRequestLine(stdin[j])}) = k

\* C6: no decoded message, whatever its JSON shape, makes the process leave
\* the read loop with a fatal error.
C6_LoopSurvives == status # "exit1"

\* C7: when the forwarding of a request ultimately fails, handle_request
\* returns an error envelope with code -32603 and the request's `id`, and that
\* envelope is the one line written for the request.
C7_InternalError ==
    (Returned /\ ~is_notification(request) /\ CallFailed) =>
        /\ IsErrorEnvelope(response, -32603, dict_get(Decoded(stdin[cur]), "id", JArr))
        /\ pc = "read" =>
              /\ LinesFor(cur) = 1
              /\ stdout[Len(stdout)] = [src |-> cur, line |-> json_dumps(response)]

\* a request with id 1 answered 404 has its -32603 envelope on standard output
C7_Witness ==
    /\ cur >= 1 /\ pc = "read" /\ Decoded(stdin[cur]) = ReqList1
    /\ http.kind = "response" /\ http.status = 404 /\ Len(posts) = 1
    /\ LinesFor(cur) = 1

C9_AlwaysForwarded ==
    (cur >= 1 /\ Decodes(stdin[cur]) /\ pc \in {"write", "read"}) =>
        /\ Len(posts) >= 1
        /\ \A k \in 1..Len(posts) : posts[k].raw = "json" /\ posts[k].value = Decoded(stdin[cur])

C11_FinalRetrySucceeds ==
    (Returned /\ ~is_notification(request) /\ Len(posts) = 4 /\ PassedThrough(http)) =>
        /\ response = http.body.value
        /\ pc = "read" =>
              /\ LinesFor(cur) = 1
              /\ \A k \in Answers(cur) : stdout[k].line.value = http.body.value

\* C12: the configured timeout bounds the whole forwarding of one message,
\* retries and backoff sleeps included: the time since session.post was
\* called never exceeds it.
C12_TimeoutBoundsCall == elapsed <= session.timeout

\* C13: an interrupt does not cut an HTTP call short: the process never stops
\* inside session.post, nor between the return of handle_request and the
\* write of the response it returned.
C13_InterruptKeepsCall ==
    interrupted => /\ pc # "post"
                   /\ ~(pc = "write" /\ response # None)

\* C14: the process leaves the loop with status 0 on end of input or on an
\* interrupt, with status 1 exactly when a fault that is not an interrupt
\* escapes the per-message handling, and once it has exited nothing more is
\* read or written.
C14_ExitStatus ==
    [][ /\ status # "running" => (stdin' = stdin /\ stdout' = stdout /\ status' = status)
        /\ (status = "running" /\ status' # "running") =>
              IF interrupted' THEN status' = "exit0"
              ELSE IF pc = "read" THEN status' = "exit0"
              ELSE pc = "handle" /\ request.type # "object" /\ status' = "exit1"
        /\ (status = "running" /\ pc = "handle" /\ request.type # "object" /\ ~interrupted')
              => status' = "exit1"
      ]_vars

\* a request was answered, then a JSON array made request.get fail and the
\* process exited with status 1
C14_Witness ==
    /\ status = "exit1" /\ ~interrupted /\ pc = "handle" /\ cur = 2
    /\ IsRequestLine(stdin[1]) /\ LinesFor(1) = 1
    /\ Decoded(stdin[2]) = JArr /\ LinesFor(2) = 0

\* C15: a call goes back from an attempt to a new attempt only after a
\* transient failure (status 429, 500, 502, 503, 504 or a connection/timeout
\* fault); any other error status ends it at once; and once the call has
\* ended no further attempt is made for the message.
C15_RetryOnlyTransient ==
    [][ /\ (posts' # posts /\ pc' = "post") => Transient(http')
        /\ (posts' # posts /\ http'.kind = "response" /\ http'.status >= 400 /\ ~Transient(http'))
              => pc' = "write"
        /\ (pc \in {"write", "read"} /\ posts' # posts) => posts' = <<>>
      ]_vars

\* C16: a success status other than 204 with a body that is not JSON is
\* turned into a failure inside handle_request: a request gets one -32603
\* envelope with its own id, a notification gets nothing, and no -32700
\* envelope is written for the message.
C16_BadBodyInternal ==
    (Returned /\ http.kind = "response" /\ http.status >= 200 /\ http.status < 300
              /\ http.status # 204 /\ http.body.raw # "json") =>
        /\ IF is_notification(request)
           THEN response = None /\ LinesFor(cur) = 0
           ELSE /\ IsErrorEnvelope(response, -32603, dict_get(Decoded(stdin[cur]), "id", JArr))
                /\ pc = "read" =>
                      /\ LinesFor(cur) = 1
                      /\ stdout[Len(stdout)] = [src |-> cur, line |-> json_dumps(response)]
        /\ \A k \in Answers(cur) : ~IsErrorEnvelope(stdout[k].line.value, -32700, None)

\* a request with id 2 answered 200 with a body that is not JSON has its one
\* line on standard output
C16_Witness ==
    /\ cur >= 1 /\ pc = "read" /\ Decoded(stdin[cur]) = ReqPing2
    /\ http.kind = "response" /\ http.status = 200 /\ http.body.raw = "garbage"
    /\ LinesFor(cur) = 1

\* C17: processing is sequential: a line is read only when the response
\* returned for the line before it has been written; every POST carries the
\* line being processed, before any output for that line; and every line
\* written answers the line being processed.
C17_Sequential ==
    [][ /\ stdin' # stdin =>
              /\ pc = "read"
              /\ response # None =>
                    /\ Len(stdout) >= 1
                    /\ stdout[Len(stdout)] = [src |-> cur, line |-> json_dumps(response)]
        /\ (posts' # posts /\ posts' # <<>>) =>
              /\ pc = "post" /\ stdin' = stdin /\ stdout' = stdout
              /\ Answers(cur) = {}
              /\ \A i \in 1..(cur - 1) : Finished(i)
              /\ \A k \in 1..Len(posts') : posts'[k] = json_dumps(Decoded(stdin[cur]))
        /\ stdout' # stdout =>
              /\ Len(stdout') = Len(stdout) + 1
              /\ SubSeq(stdout', 1, Len(stdout)) = stdout
              /\ stdout'[Len(stdout')].src = Len(stdin')
      ]_vars

\* the first request has its line on standard output and the POST of the
\* second one is in flight
C17_Witness ==
    /\ cur = 2 /\ pc = "post" /\ Len(posts) >= 1
    /\ IsRequestLine(stdin[1]) /\ LinesFor(1) = 1
    /\ IsRequestLine(stdin[2]) /\ LinesFor(2) = 0

\* C18: when the last attempt returned a success status other than 204 with
\* a JSON body, a request's one output line is that decoded body, unchanged,
\* and a notification gets no line.
C18_BodyVerbatim ==
    (Returned /\ PassedThrough(http)) =>
        IF is_notification(request)
        THEN response = None /\ LinesFor(cur) = 0
        ELSE /\ response = http.body.value
             /\ pc = "read" =>
                   /\ LinesFor(cur) = 1
                   /\ stdout[Len(stdout)] = [src |-> cur, line |-> json_dumps(http.body.value)]

\* C19 (as stated): no call changes the session: it stays as __init__ left it.
C19_SessionUnchanged == session = new_session

\* C19 (amended): no call changes the url, the credential, the timeout or the
\* retry policy, and every call starts with the full retry budget, no attempt
\* made and the clock at zero; the session's cookie jar is the one thing a call
\* can leave behind.
C19_ConfigUnchanged ==
    /\ session.url = "http://localhost:8080/mcp"
    /\ session.share_key = "secret"
    /\ session.timeout = Timeout
    /\ session.max_retries.total = 3
    /\ session.max_retries.status_forcelist = {429, 500, 502, 503, 504}
    /\ pc = "handle" => (retries = 3 /\ posts = <<>> /\ http = NoHttp /\ elapsed = 0)

\* a second call starts after a first one that was answered with a cookie
C19_Witness ==
    /\ cur = 2 /\ pc = "handle" /\ session.cookies
    /\ IsRequestLine(stdin[1]) /\ LinesFor(1) = 1
    /\ IsRequestLine(stdin[2])

====
